---- MODULE Spec2Model ----
(***************************************************************************)
(* Model of the crawlspace sensor firmware (crawlspace.ino): the table of  *)
(* measurement steps, the loop() runner that walks it, and the deep-sleep  *)
(* step that ends a measurement cycle.                                     *)
(*                                                                         *)
(* A cycle is everything the firmware does between setup() and the moment  *)
(* the chip really goes down in deep sleep.  Waking up from deep sleep is  *)
(* a reset: the statics are constructed again and setup() runs.            *)
(*                                                                         *)
(* Collaborators (WiFiManager, the NTP server, the VL53L0X, PubSubClient,  *)
(* ESP.deepSleep) are the environment: each call draws its outcome from a  *)
(* small set.  ESP.deepSleep() either takes the chip down inside the call  *)
(* or returns to its caller (a core without the trailing yield, or a       *)
(* recording sleep controller in a test build).                            *)
(*                                                                         *)
(* Wall-clock time is counted in whole seconds.  All epoch values stay     *)
(* below 2^31, so the uint32_t arithmetic of the firmware never wraps on   *)
(* the values explored here.                                               *)
(***************************************************************************)
EXTENDS Integers, Sequences, FiniteSets, TLC

\* ------------------------------------------------------------------ bounds
\* loop() passes explored per cycle
MaxPasses == 7
\* cycles (boots) explored
MaxCycles == 2
\* longest time spent awake in one cycle, in seconds
MaxElapsed == 1
\* evaluations of the wait-loop condition of the time-sync step explored
\* (the n-th is made n * 10 ms after the request)
MaxPolls == 302
\* the harness hands every epoch_time from 0 up to this one to the sleep step
MaxSmallTime == 119

\* wall-clock instants at which the first boot can happen
Epochs == {59, 1700000099}
\* chip identities (ESP.getChipId()); 11256099 = 0xABC123
ChipIds == {11256099}
\* whole seconds one loop() pass can take when its step waits for a
\* collaborator
Durations == {0, 1}
\* distances the lidar can report (65535: its timeout value)
Ranges == {312, 65535}
\* what the climate sensor in the crawl space would report if it were read;
\* ok is FALSE when its protocol reports a checksum/timing failure
Climates == {[humidity |-> 45, temperature |-> 21, ok |-> TRUE],
             [humidity |-> 0, temperature |-> 0, ok |-> FALSE]}

\* --------------------------------------------------------- program constants
PERIOD == 60
\* 2208988800 = 0x83AA7E80, seconds between 1900-01-01 and 1970-01-01,
\* kept as two 16 bit words
OFFSET_HIGH == 33706
OFFSET_LOW == 32384
WORD == 65536
MICROS == 1000000

\* indices into steps[]
NSTEPS == 7
SLEEP == 6
PUBLISH == 5

VARIABLES
    step,           \* static step_t *step, as an index into steps[]
    measurement,    \* static meas_t measurement
    mqttConnected,  \* mqttClient.connected()
    pinShut,        \* level of PIN_SHUT
    pc,             \* "run": loop() is being scheduled, "halted": deep sleep,
                    \* "hung": a step never returns, "harness": no runner
    now,            \* wall clock, seconds since 1970
    bootAt,         \* wall clock at setup()
    chipId,         \* ESP.getChipId()
    climate,        \* the reading the climate sensor holds
    cycle,          \* number of the current cycle
    passes,         \* loop() passes made in this cycle
    invoked,        \* history: per table entry, times step->fn ran this cycle
    succeeded,      \* history: per table entry, times it returned true
    failed,         \* history: per table entry, times it returned false
    returned,       \* history: what the time source and the lidar answered
    suspends,       \* history: the ESP.deepSleep() calls of the latest pass
    suspendCalls,   \* history: number of ESP.deepSleep() calls this cycle
    sink,           \* history: what the publish step did in the latest pass
    publishCalls,   \* history: times the publish step ran this cycle
    reads,          \* history: the reads of *meas made in the latest pass
    wrote,          \* history: the assignments to *meas of the latest pass
    writes,         \* history: per field, assignments made this cycle
    harness         \* a test harness calling single step functions

vars == <<step, measurement, mqttConnected, pinShut, pc, now, bootAt, chipId,
          climate, cycle, passes, invoked, succeeded, failed, returned,
          suspends, suspendCalls, sink, publishCalls, reads, wrote, writes,
          harness>>

\* ------------------------------------------------------------- formatting
DecDigit == <<"0", "1", "2", "3", "4", "5", "6", "7", "8", "9">>
HexDigit == <<"0", "1", "2", "3", "4", "5", "6", "7", "8", "9",
              "A", "B", "C", "D", "E", "F">>

RECURSIVE FmtU(_)
\* printf("%u")
FmtU(n) == IF n < 10 THEN DecDigit[n + 1]
           ELSE FmtU(n \div 10) \o DecDigit[(n % 10) + 1]

\* printf("%d")
FmtD(n) == IF n < 0 THEN "-" \o FmtU(0 - n) ELSE FmtU(n)

RECURSIVE FmtX(_)
\* printf("%X")
FmtX(n) == IF n < 16 THEN HexDigit[n + 1]
           ELSE FmtX(n \div 16) \o HexDigit[(n % 16) + 1]

RECURSIVE ZeroPad(_, _)
ZeroPad(s, width) == IF Len(s) >= width THEN s ELSE ZeroPad("0" \o s, width)

\* sprintf(meas->id, "%06X", ESP.getChipId())
FmtId(chip) == ZeroPad(FmtX(chip), 6)

\* the snprintf of step_publish_mqtt
FmtJson(meas) ==
    "{\"id\":\"" \o meas.id \o "\",\"time\":" \o FmtU(meas.time)
    \o ",\"humidity\":" \o FmtD(meas.humidity)
    \o ",\"temperature\":" \o FmtD(meas.temperature)
    \o ",\"range\":" \o FmtU(meas.range) \o "}"

\* ------------------------------------------------------------------ record
\* memset(&measurement, 0, sizeof(measurement))
ZeroMeasurement ==
    [id |-> "", time |-> 0, humidity |-> 0, temperature |-> 0, range |-> 0]

\* ------------------------------------------------------------- time source
\* the transmit timestamp (seconds part) an NTP server puts in bytes 40..43
\* of its reply at wall-clock instant t: t + 2208988800, as two 16 bit words
NtpReply(t) ==
    LET lo == (t % WORD) + OFFSET_LOW
        hi == (t \div WORD) + OFFSET_HIGH + (lo \div WORD)
    IN  [high |-> hi % WORD, low |-> lo % WORD]

\* secsSince1900 = highWord << 16 | lowWord;
\* meas->time = secsSince1900 - 2208988800UL   (unsigned 32 bit)
EpochFromNtp(reply) ==
    LET lo == reply.low - OFFSET_LOW
        borrow == IF lo < 0 THEN 1 ELSE 0
        hi == (reply.high - OFFSET_HIGH - borrow) % WORD
    IN  (hi * WORD) + (lo % WORD)

NTP_TIMEOUT == 3000
POLL_DELAY == 10
\* the reply never arrives
Never == -1
\* milliseconds after the request at which the reply can arrive
Arrivals == {15, 3011, Never}

\* a wait loop whose timeout test never fires
WaitForReply_notimeout(arrival) ==
    LET Arrived(n) == arrival # Never /\ arrival <= n * POLL_DELAY
        exits == {n \in 0..MaxPolls : Arrived(n)}
        last == (MaxPolls + 1) - Cardinality(exits)
    IN  [got |-> exits # {} /\ Arrived(last),
         waited |-> last * POLL_DELAY,
         hung |-> exits = {}]

\* while ((cb = udp.parsePacket()) <= 0) {
\*     if ((millis() - start) > NTP_TIMEOUT) return false;
\*     delay(10); }
\* The n-th evaluation of the loop condition is made n * 10 ms after start.
\* The loop is left at the first n at which either a packet is there or the
\* timeout test fires.  Both tests stay true once they are true, so the n at
\* which the loop exits form a final segment of 0..MaxPolls and the first of
\* them is MaxPolls + 1 minus their number.  hung: the loop is not left
\* within MaxPolls evaluations.
WaitForReply(arrival) ==
    LET Arrived(n) == arrival # Never /\ arrival <= n * POLL_DELAY
        TimedOut(n) == n * POLL_DELAY > NTP_TIMEOUT
        exits == {n \in 0..MaxPolls : Arrived(n) \/ TimedOut(n)}
        last == (MaxPolls + 1) - Cardinality(exits)
    IN  [got |-> exits # {} /\ Arrived(last),
         waited |-> last * POLL_DELAY,
         hung |-> exits = {}]

\* ------------------------------------------------------------------- steps
\* Every step function takes the device state touched by the steps
\* (dev.measurement is *meas) together with what its collaborators answer
\* (in), and yields the device state after the call; dev.result is the
\* value the function returns.  dev.reads and dev.writes collect, as
\* history, which function read and which assigned which field of *meas.

Access(fn, field) == [fn |-> fn, field |-> field]

Fields == {"id", "time", "humidity", "temperature", "range"}

\* a join step that formats the id only once the network is joined
step_connect_wifi_late(dev, in) ==
    IF in.wifi
    THEN [dev EXCEPT !.measurement.id = FmtId(in.chip),
                     !.writes = @ \cup {Access("step_connect_wifi", "id")},
                     !.result = TRUE]
    ELSE [dev EXCEPT !.result = FALSE]

step_connect_wifi(dev, in) ==
    [dev EXCEPT !.measurement.id = FmtId(in.chip),
                !.writes = @ \cup {Access("step_connect_wifi", "id")},
                !.result = in.wifi]

\* a time-sync step that decodes the receive buffer before it looks at the
\* outcome of the wait
step_request_sntp_eager(dev, in) ==
    LET w == WaitForReply(in.arrival)
    IN  [dev EXCEPT !.measurement.time = EpochFromNtp(NtpReply(in.at)),
                    !.writes = @ \cup {Access("step_request_sntp", "time")},
                    !.waited = w.waited,
                    !.hung = w.hung,
                    !.result = w.got]

step_request_sntp(dev, in) ==
    LET w == WaitForReply(in.arrival)
    IN  IF w.hung
        THEN [dev EXCEPT !.hung = TRUE]
        ELSE IF w.got
        THEN [dev EXCEPT !.measurement.time = EpochFromNtp(NtpReply(in.at)),
                         !.writes = @ \cup {Access("step_request_sntp", "time")},
                         \* print("%u s", meas->time)
                         !.reads = @ \cup {Access("step_request_sntp", "time")},
                         !.waited = w.waited,
                         !.result = TRUE]
        ELSE [dev EXCEPT !.waited = w.waited, !.result = FALSE]

step_prepare_lidar(dev, in) ==
    [dev EXCEPT !.result = TRUE]

step_measure_range(dev, in) ==
    [dev EXCEPT !.measurement.range = in.range,
                !.writes = @ \cup {Access("step_measure_range", "range")},
                \* print("%u mm", meas->range)
                !.reads = @ \cup {Access("step_measure_range", "range")},
                !.result = TRUE]

\* a climate step that clears the whole record before it stores its reading
step_measure_temp_hum_clear(dev, in) ==
    [dev EXCEPT !.measurement = ZeroMeasurement,
                !.writes = @ \cup {Access("step_measure_temp_hum", f) :
                                       f \in Fields},
                !.result = TRUE]

step_measure_temp_hum(dev, in) ==
    [dev EXCEPT !.measurement.humidity = 0,
                !.measurement.temperature = 0,
                !.writes = @ \cup {Access("step_measure_temp_hum", "humidity"),
                                   Access("step_measure_temp_hum", "temperature")},
                !.result = TRUE]

step_publish_mqtt(dev, in) ==
    LET value == FmtJson(dev.measurement)
        \* if (!mqttClient.connected()) mqttClient.connect(meas->id)
        conn == IF dev.mqttConnected THEN TRUE ELSE in.conn
        read == {Access("step_publish_mqtt", f) : f \in Fields}
    IN  IF conn
        THEN [dev EXCEPT !.mqttConnected = TRUE,
                         !.reads = @ \cup read,
                         \* the return value of mqttClient.publish() (accepted)
                         \* is dropped
                         !.sink = Append(@, [payload |-> value, sent |-> TRUE,
                                             accepted |-> in.accept,
                                             result |-> TRUE]),
                         !.result = TRUE]
        ELSE [dev EXCEPT !.mqttConnected = FALSE,
                         !.reads = @ \cup read,
                         !.sink = Append(@, [payload |-> value, sent |-> FALSE,
                                             accepted |-> FALSE,
                                             result |-> FALSE]),
                         !.result = FALSE]

\* a sleep time reduced modulo the period: 0 on a period boundary
SleepSeconds_wrapped(time) == (PERIOD - (time % PERIOD)) % PERIOD

\* a fixed sleep time of one period
SleepSeconds_fixed(time) == PERIOD

\* seconds = PERIOD - (meas->time % PERIOD)
SleepSeconds(time) == PERIOD - (time % PERIOD)

\* 1000000UL * seconds in unsigned 32 bit arithmetic, as two 16 bit words:
\* the low 32 bits of the product (for seconds below 2^15)
Micros32(seconds) ==
    LET low == (MICROS % WORD) * seconds
        high == ((MICROS \div WORD) * seconds) + (low \div WORD)
    IN  [high |-> high % WORD, low |-> low % WORD]

\* a sleep step that leaves the lidar powered
step_deep_sleep_powered(dev, in) ==
    LET seconds == SleepSeconds(dev.measurement.time)
    IN  [dev EXCEPT !.reads = @ \cup {Access("step_deep_sleep", "time")},
                    !.suspends = Append(@, [seconds |-> seconds,
                                            micros |-> Micros32(seconds),
                                            time |-> dev.measurement.time,
                                            pin |-> dev.pinShut,
                                            at |-> in.at,
                                            synced |-> in.synced]),
                    !.halted = ~in.ret,
                    !.result = FALSE]

\* a sleep step that reports success when deepSleep returns
step_deep_sleep_true(dev, in) ==
    LET seconds == SleepSeconds(dev.measurement.time)
    IN  [dev EXCEPT !.pinShut = "LOW",
                    !.reads = @ \cup {Access("step_deep_sleep", "time")},
                    !.suspends = Append(@, [seconds |-> seconds,
                                            micros |-> Micros32(seconds),
                                            time |-> dev.measurement.time,
                                            pin |-> "LOW",
                                            at |-> in.at,
                                            synced |-> in.synced]),
                    !.halted = ~in.ret,
                    !.result = TRUE]

\* Each ESP.deepSleep() call is kept with its argument (micros), the seconds
\* it was computed from, the meas->time read, the level PIN_SHUT has at the
\* call and, as history, the wall clock at the call (at) and whether time
\* sync had succeeded earlier in the cycle (synced).
step_deep_sleep(dev, in) ==
    LET \* digitalWrite(PIN_SHUT, LOW)
        down == [dev EXCEPT !.pinShut = "LOW"]
        seconds == SleepSeconds(down.measurement.time)
    IN  [down EXCEPT !.reads = @ \cup {Access("step_deep_sleep", "time")},
                     !.suspends = Append(@, [seconds |-> seconds,
                                             micros |-> Micros32(seconds),
                                             time |-> down.measurement.time,
                                             pin |-> down.pinShut,
                                             at |-> in.at,
                                             synced |-> in.synced]),
                     !.halted = ~in.ret,
                     !.result = FALSE]

\* a table in which the publish step comes before the climate step
steps_swapped(i, dev, in) ==
    CASE i = 0 -> step_connect_wifi(dev, in)
      [] i = 1 -> step_request_sntp(dev, in)
      [] i = 2 -> step_prepare_lidar(dev, in)
      [] i = 3 -> step_measure_range(dev, in)
      [] i = 4 -> step_publish_mqtt(dev, in)
      [] i = 5 -> step_measure_temp_hum(dev, in)
      [] i = 6 -> step_deep_sleep(dev, in)

\* steps[i].fn
steps(i, dev, in) ==
    CASE i = 0 -> step_connect_wifi(dev, in)
      [] i = 1 -> step_request_sntp(dev, in)
      [] i = 2 -> step_prepare_lidar(dev, in)
      [] i = 3 -> step_measure_range(dev, in)
      [] i = 4 -> step_measure_temp_hum(dev, in)
      [] i = 5 -> step_publish_mqtt(dev, in)
      [] i = 6 -> step_deep_sleep(dev, in)

\* a runner that leaves the cursor where it is
NextStep_stuck(i) == i

\* a runner that advances the cursor by two entries
NextStep_skip(i) == i + 2

\* step++
NextStep(i) == i + 1

\* --------------------------------------------------------------- the runner
NoEpoch == -1
NoRange == -1

\* nothing has been invoked yet in this cycle
NoCalls == [i \in 0..(NSTEPS - 1) |-> 0]
NoAnswers == [epoch |-> NoEpoch, range |-> NoRange, waited |-> 0]

\* the answers the collaborators can give while steps[i] runs; answers that
\* steps[i] does not ask for are fixed
Only(i, j, S, dflt) == IF i = j THEN S ELSE {dflt}

\* the steps that block on the network or on a ranging measurement; the
\* others (lidar timing budget, the climate stub, the sleep step up to its
\* deepSleep call) take no measurable time
Blocking == {0, 1, 3, 5}

Inputs(i) ==
    [wifi    : Only(i, 0, BOOLEAN, FALSE),
     arrival : Only(i, 1, Arrivals, Never),
     range   : Only(i, 3, Ranges, 312),
     conn    : Only(i, 5, BOOLEAN, FALSE),
     accept  : Only(i, 5, BOOLEAN, FALSE),
     ret     : BOOLEAN,
     secs    : IF i \in Blocking
               THEN {d \in Durations : (now - bootAt) + d <= MaxElapsed}
               ELSE {0}]

NoWrites == [f \in Fields |-> 0]

\* the harness is not in use
NoHarness == [test |-> "none", calls |-> 0, start |-> ZeroMeasurement,
              first |-> ZeroMeasurement, rec |-> ZeroMeasurement,
              suspends |-> <<>>]

\* the state in which setup() leaves the firmware
Fresh ==
    /\ step = 0
    /\ measurement = ZeroMeasurement
    /\ mqttConnected = FALSE
    /\ pinShut = "HIGH"
    /\ passes = 0
    /\ invoked = NoCalls
    /\ succeeded = NoCalls
    /\ failed = NoCalls
    /\ returned = NoAnswers
    /\ suspends = <<>>
    /\ suspendCalls = 0
    /\ sink = <<>>
    /\ publishCalls = 0
    /\ reads = {}
    /\ wrote = {}
    /\ writes = NoWrites

\* power-on: the statics are constructed and setup() has run
Init ==
    /\ chipId \in ChipIds
    /\ climate \in Climates
    /\ cycle = 1
    /\ now \in Epochs
    /\ bootAt = now
    /\ pc = "run"
    /\ Fresh
    /\ harness = NoHarness

\* the deep-sleep timer expires: the chip resets, the statics are constructed
\* again and setup() runs
setup ==
    /\ pc = "halted"
    /\ cycle < MaxCycles
    /\ cycle' = cycle + 1
    /\ now' = now + suspends[Len(suspends)].seconds
    /\ bootAt' = now'
    /\ step' = 0
    /\ measurement' = ZeroMeasurement
    /\ mqttConnected' = FALSE
    /\ pinShut' = "HIGH"
    /\ pc' = "run"
    /\ passes' = 0
    /\ invoked' = NoCalls
    /\ succeeded' = NoCalls
    /\ failed' = NoCalls
    /\ returned' = NoAnswers
    /\ suspends' = <<>>
    /\ suspendCalls' = 0
    /\ sink' = <<>>
    /\ publishCalls' = 0
    /\ reads' = {}
    /\ wrote' = {}
    /\ writes' = NoWrites
    /\ UNCHANGED <<chipId, climate, harness>>

\* the device state handed to a step function
Device(meas) ==
    [measurement |-> meas,
     mqttConnected |-> mqttConnected,
     pinShut |-> pinShut,
     suspends |-> <<>>,
     sink |-> <<>>,
     reads |-> {},
     writes |-> {},
     waited |-> returned.waited,
     halted |-> FALSE,
     hung |-> FALSE,
     result |-> FALSE]

\* one pass of loop()
loop ==
    /\ pc = "run"
    /\ passes < MaxPasses
    /\ \E c \in Inputs(step) :
         LET in  == [wifi |-> c.wifi, arrival |-> c.arrival, range |-> c.range,
                     conn |-> c.conn, accept |-> c.accept, ret |-> c.ret,
                     chip |-> chipId, at |-> now + c.secs,
                     synced |-> succeeded[1] > 0]
             dev == Device(measurement)
         IN
         \* result = step->fn(&measurement)
         \E r \in {steps(step, dev, in)} :
         \* if (result) step++; else step_deep_sleep(&measurement);
         \E e \in {IF r.halted \/ r.hung \/ r.result THEN r
                   ELSE step_deep_sleep(r, in)} :
             /\ step' = IF ~r.halted /\ ~r.hung /\ r.result
                        THEN NextStep(step) ELSE step
             /\ measurement' = e.measurement
             /\ mqttConnected' = e.mqttConnected
             /\ pinShut' = e.pinShut
             /\ suspends' = e.suspends
             /\ suspendCalls' = suspendCalls + Len(e.suspends)
             /\ sink' = e.sink
             /\ publishCalls' = publishCalls + Len(e.sink)
             /\ reads' = e.reads
             /\ wrote' = e.writes
             /\ writes' = [f \in Fields |->
                              writes[f] + Cardinality({w \in e.writes :
                                                          w.field = f})]
             /\ pc' = IF e.hung THEN "hung"
                      ELSE IF e.halted THEN "halted" ELSE "run"
             /\ now' = in.at
             /\ invoked' = [invoked EXCEPT ![step] = @ + 1]
             /\ succeeded' = IF ~r.halted /\ ~r.hung /\ r.result
                             THEN [succeeded EXCEPT ![step] = @ + 1]
                             ELSE succeeded
             /\ failed' = IF ~r.halted /\ ~r.hung /\ ~r.result
                          THEN [failed EXCEPT ![step] = @ + 1]
                          ELSE failed
             /\ returned' = [epoch  |-> IF step = 1 /\ r.result THEN in.at
                                        ELSE returned.epoch,
                             range  |-> IF step = 3 THEN in.range
                                        ELSE returned.range,
                             waited |-> e.waited]
    /\ passes' = passes + 1
    /\ UNCHANGED <<bootAt, chipId, climate, cycle, harness>>

Next == loop \/ setup

Spec == Init /\ [][Next]_vars

\* loop() keeps being called by the Arduino core while the chip is awake
FairSpec == Spec /\ WF_vars(loop)

\* ------------------------------------------------------------ the harness
\* A test harness that calls a single step function on a record of its own
\* choosing, outside the runner: the climate step twice in a row, or the
\* sleep step once with a sleep controller that records the call and
\* returns.

HarnessRecords ==
    [id : {"", "ABC123"},
     time : {0, 1700000100},
     humidity : {-5, 0, 45},
     temperature : {-3, 0, 21},
     range : {0, 312}]

\* 2147483647 = 2^31 - 1
HarnessTimes == (0..MaxSmallTime) \cup {1700000099, 1700000100, 2147483647}

HarnessStart(test, rec) ==
    [test |-> test, calls |-> 0, start |-> rec, first |-> rec, rec |-> rec,
     suspends |-> <<>>]

HarnessInit ==
    /\ chipId \in ChipIds
    /\ climate \in Climates
    /\ cycle = 1
    /\ now = 0
    /\ bootAt = 0
    /\ pc = "harness"
    /\ Fresh
    /\ harness \in {HarnessStart("climate", rec) : rec \in HarnessRecords}
                 \cup {HarnessStart("sleep", [ZeroMeasurement EXCEPT !.time = t]) :
                           t \in HarnessTimes}

\* what the collaborators answer in the harness
HarnessIn ==
    [wifi |-> FALSE, arrival |-> Never, range |-> 312, conn |-> FALSE,
     accept |-> FALSE, ret |-> TRUE, chip |-> chipId, at |-> now,
     synced |-> FALSE]

\* step_measure_temp_hum(&rec), up to two times
test_measure_temp_hum ==
    /\ pc = "harness"
    /\ harness.test = "climate"
    /\ harness.calls < 2
    /\ \E r \in {step_measure_temp_hum(Device(harness.rec), HarnessIn)} :
         harness' = [harness EXCEPT !.calls = @ + 1,
                                    !.rec = r.measurement,
                                    !.first = IF harness.calls = 0
                                              THEN r.measurement ELSE @]
    /\ UNCHANGED <<step, measurement, mqttConnected, pinShut, pc, now, bootAt,
                   chipId, climate, cycle, passes, invoked, succeeded, failed,
                   returned, suspends, suspendCalls, sink, publishCalls,
                   reads, wrote, writes>>

\* step_deep_sleep(&rec), once
test_deep_sleep ==
    /\ pc = "harness"
    /\ harness.test = "sleep"
    /\ harness.calls < 1
    /\ \E r \in {step_deep_sleep(Device(harness.rec), HarnessIn)} :
         harness' = [harness EXCEPT !.calls = @ + 1,
                                    !.rec = r.measurement,
                                    !.first = r.measurement,
                                    !.suspends = r.suspends]
    /\ UNCHANGED <<step, measurement, mqttConnected, pinShut, pc, now, bootAt,
                   chipId, climate, cycle, passes, invoked, succeeded, failed,
                   returned, suspends, suspendCalls, sink, publishCalls,
                   reads, wrote, writes>>

HarnessNext == test_measure_temp_hum \/ test_deep_sleep

HarnessSpec == HarnessInit /\ [][HarnessNext]_vars

TypeOK ==
    /\ step \in 0..(NSTEPS - 1)
    /\ pc \in {"run", "halted", "hung", "harness"}
    /\ pinShut \in {"HIGH", "LOW"}
    /\ mqttConnected \in BOOLEAN
    /\ passes \in 0..MaxPasses
    /\ cycle \in 1..MaxCycles

\* ================================================================ properties
\* suspends holds the deepSleep calls of the latest loop() pass, so a
\* statement about every k in Calls, as an invariant, is a statement about
\* every deepSleep call the firmware makes.
NonSleep == 0..(SLEEP - 1)
Calls == 1..Len(suspends)
TableCalls == invoked[0] + invoked[1] + invoked[2] + invoked[3]
              + invoked[4] + invoked[5] + invoked[6]

\* C1: once a step of the table has reported failure, no later step of the
\* table other than the sleep step is invoked in the same cycle.
C1_NoLaterStepAfterFailure ==
    \A i \in NonSleep : failed[i] > 0 =>
        \A j \in NonSleep : j > i => invoked[j] = 0

\* C2: in every cycle the sleep controller's suspend (ESP.deepSleep) is
\* called exactly once: never a second time, and once the chip is down it
\* has been called.
C2_SuspendOncePerCycle ==
    /\ suspendCalls <= 1
    /\ pc = "halted" => suspendCalls = 1

\* C3: while loop() keeps being scheduled, every cycle eventually invokes
\* the sleep step, whatever the six other steps report.
C3_CycleReachesSleep == (suspendCalls = 0) ~> (suspendCalls > 0)

C3_Witness ==
    /\ cycle = 2
    /\ \A i \in NonSleep : succeeded[i] = 1
    /\ suspendCalls > 0

\* C4: a cycle starts at entry 0; every loop() pass invokes exactly one entry
\* of the table, the one under the cursor; an entry other than the first is
\* invoked only after the entry before it was invoked and returned true; the
\* entries that returned true are exactly those before the cursor, each once.
C4_StepOrder ==
    /\ TableCalls = 0 => step = 0
    /\ TableCalls = passes
    /\ \A i \in 1..SLEEP : invoked[i] > 0 => succeeded[i - 1] > 0
    /\ \A i \in NonSleep : succeeded[i] = IF i < step THEN 1 ELSE 0
    /\ \A i \in 0..SLEEP : i > step => invoked[i] = 0

C4_Witness ==
    /\ step = SLEEP
    /\ invoked = [i \in 0..SLEEP |-> 1]

\* C5: the seconds handed to suspend are 60 - (t mod 60) for the epoch_time t
\* the sleep step read; 60 for t = 0, 1 for t = 59, 60 for t = 60 and 60 for
\* t = 1700000100.
C5_SleepAlignment ==
    \A k \in Calls :
        LET t == suspends[k].time
            seconds == suspends[k].seconds
        IN  /\ seconds = 60 - (t % 60)
            /\ t = 0 => seconds = 60
            /\ t = 59 => seconds = 1
            /\ t = 60 => seconds = 60
            /\ t = 1700000100 => seconds = 60

C5_Witness ==
    /\ \E k \in Calls : suspends[k].time = 1700000100
    /\ succeeded[PUBLISH] = 1

\* C6: within one cycle no step function of the table is invoked a second
\* time, also when suspend returns to the runner.
C6_NoRetry == \A i \in NonSleep : invoked[i] <= 1

\* C7: per cycle the publish step runs at most once, and it has run exactly
\* once when the cycle ends after join, sync, prepare, range and climate all
\* succeeded.
C7_OnePublishAttempt ==
    /\ publishCalls <= 1
    /\ (pc = "halted" /\ \A i \in 0..(PUBLISH - 1) : succeeded[i] > 0)
           => publishCalls = 1

\* C8: a sleep step that runs while time sync has not succeeded in the cycle
\* reads epoch_time 0 and asks for a suspension of exactly 60 seconds.
C8_UnsyncedSleepsOnePeriod ==
    /\ succeeded[1] = 0 => measurement.time = 0
    /\ \A k \in Calls : ~suspends[k].synced =>
           suspends[k].time = 0 /\ suspends[k].seconds = 60

C8_Witness ==
    /\ failed[1] > 0
    /\ succeeded[1] = 0
    /\ suspends # <<>>

\* C9 (as claimed): after a successful time sync, the wall-clock instant at
\* which the suspension ends, suspend entry plus seconds, is a multiple of
\* the period.
C9_WakeOnPeriodBoundary ==
    \A k \in Calls : suspends[k].synced =>
        (suspends[k].at + suspends[k].seconds) % PERIOD = 0

\* C9 (amended): after a successful time sync, epoch_time plus the seconds
\* handed to suspend is a multiple of the period; the suspension ends later
\* than that multiple by the time that passed between the time-sync reading
\* and suspend entry, and so ends on a multiple of the period exactly when
\* that time is itself a multiple of the period.
C9_WakeLateByCycleTime ==
    \A k \in Calls : suspends[k].synced =>
        LET t == suspends[k].time
            late == suspends[k].at - t
            wake == suspends[k].at + suspends[k].seconds
        IN  /\ late >= 0
            /\ (t + suspends[k].seconds) % PERIOD = 0
            /\ (wake - late) % PERIOD = 0
            /\ (wake % PERIOD = 0) <=> (late % PERIOD = 0)

C9_Witness ==
    \E k \in Calls : /\ suspends[k].synced
                     /\ suspends[k].at > suspends[k].time
                     /\ pc = "halted"

\* C10: in a fully successful run the record the publish step serializes and
\* publishes carries the id set by join, the epoch the time source returned,
\* the range the lidar returned and the humidity and temperature of the
\* climate sensor.
C10_PublishedRecordIsMeasured ==
    \A k \in 1..Len(sink) : sink[k].sent =>
        sink[k].payload = FmtJson([id |-> FmtId(chipId),
                                   time |-> returned.epoch,
                                   humidity |-> climate.humidity,
                                   temperature |-> climate.temperature,
                                   range |-> returned.range])

\* the step that produces a field
Producer(field) ==
    CASE field = "id" -> 0
      [] field = "time" -> 1
      [] field = "range" -> 3
      [] field = "humidity" -> 4
      [] field = "temperature" -> 4

Designated(field) ==
    CASE field = "id" -> "step_connect_wifi"
      [] field = "time" -> "step_request_sntp"
      [] field = "range" -> "step_measure_range"
      [] field = "humidity" -> "step_measure_temp_hum"
      [] field = "temperature" -> "step_measure_temp_hum"

\* C11: the record is all zero when a cycle starts; within a cycle every
\* field is assigned at most once, and only by its designated step.
C11_FieldsWrittenOnce ==
    /\ passes = 0 => measurement = ZeroMeasurement
    /\ \A f \in Fields : writes[f] <= 1
    /\ \A w \in wrote : w.fn = Designated(w.field)

\* C12: the publish step returns true only when the sink accepted the
\* message, returns false when the sink is unreachable or rejects the send,
\* and a rejected send is followed by the sleep step in the same pass.
C12_PublishReportsRejection ==
    \A k \in 1..Len(sink) :
        /\ sink[k].result <=> (sink[k].sent /\ sink[k].accepted)
        /\ ~sink[k].accepted => suspends # <<>>

\* C13: once the climate step has run, the record holds the humidity and
\* temperature the sensor returned if the read succeeded, and the step has
\* reported failure, with no publish in the cycle, if the read failed.
C13_ClimateStepFollowsSensor ==
    invoked[4] > 0 =>
        IF climate.ok
        THEN /\ succeeded[4] > 0
             /\ measurement.humidity = climate.humidity
             /\ measurement.temperature = climate.temperature
        ELSE /\ succeeded[4] = 0
             /\ publishCalls = 0

\* C14: calling the climate step twice in a row on any record leaves id,
\* time and range as they were, and the second call leaves the record as
\* the first call left it.
C14_ClimateStepIdempotent ==
    harness.test = "climate" =>
        /\ harness.rec.id = harness.start.id
        /\ harness.rec.time = harness.start.time
        /\ harness.rec.range = harness.start.range
        /\ harness.calls = 2 => harness.rec = harness.first

C14_Witness ==
    /\ harness.test = "climate"
    /\ harness.calls = 2
    /\ harness.start.humidity = 45
    /\ harness.start.id = "ABC123"
    /\ harness.start.range = 312

\* C15: at every deepSleep call the shutdown pin of the lidar is low, on
\* every path; after a sleep step the pin stays low for the rest of the
\* cycle.
C15_LidarDownBeforeSuspend ==
    /\ \A k \in Calls : suspends[k].pin = "LOW"
    /\ suspendCalls > 0 => pinShut = "LOW"

C15_Witness ==
    /\ failed[0] = 1
    /\ TableCalls = 1
    /\ suspends # <<>>

\* C16: the time-sync step never hangs; when no reply arrives in time it
\* returns false once more than NTP_TIMEOUT ms have passed, within one more
\* poll delay, and epoch_time is not written.
C16_SyncTimesOut ==
    /\ pc # "hung"
    /\ (invoked[1] > 0 /\ succeeded[1] = 0) =>
           /\ failed[1] = invoked[1]
           /\ returned.waited > 3000
           /\ returned.waited <= 3000 + POLL_DELAY
           /\ writes["time"] = 0
           /\ measurement.time = 0

C16_Witness ==
    /\ failed[1] > 0
    /\ succeeded[1] = 0
    /\ returned.waited = 3010
    /\ suspends # <<>>

\* the reads of the latest pass made before the producing step of the field
\* was invoked in the cycle
Premature == {rd \in reads : invoked[Producer(rd.field)] = 0}

\* C17 (as claimed): no step reads a field of the record before the step
\* that produces the field has run in the cycle.
C17_NoReadBeforeProducer == Premature = {}

\* C17 (amended): only the sleep step reads a field before its producing
\* step has run: it reads epoch_time after a failed join, when time sync has
\* not run, and then reads 0; every other read, the reads of the publish
\* step included, comes after the producing step ran.
C17_OnlySleepReadsEarly ==
    /\ \A rd \in Premature :
           /\ rd = Access("step_deep_sleep", "time")
           /\ step = 0
           /\ measurement.time = 0
    /\ \A rd \in reads : rd.fn = "step_publish_mqtt" =>
           succeeded[Producer(rd.field)] = 1

C17_Witness ==
    /\ Premature = {Access("step_deep_sleep", "time")}
    /\ failed[0] > 0
    /\ suspends # <<>>

\* C18 (as claimed): a step that reports failure leaves the record as it
\* was before the step was invoked.
C18_FailureLeavesRecord ==
    [][\A i \in NonSleep :
          failed'[i] > failed[i] => measurement' = measurement]_vars

\* C18 (amended): a failing time-sync or publish step leaves the record as
\* it was; the join step sets device_id whether or not the join succeeds, so
\* a failing join changes device_id and nothing else, and after a failed
\* join the record is all zero except for device_id.
C18_FailureLeavesRecordButId ==
    /\ [][\A i \in NonSleep : failed'[i] > failed[i] =>
             measurement' = IF i = 0
                            THEN [measurement EXCEPT !.id = FmtId(chipId)]
                            ELSE measurement]_vars
    /\ []((failed[0] > 0 /\ succeeded[0] = 0) =>
             measurement = [ZeroMeasurement EXCEPT !.id = FmtId(chipId)])

C18_Witness ==
    /\ failed[0] > 0
    /\ succeeded[0] = 0
    /\ measurement.id = "ABC123"
    /\ suspends # <<>>

\* C19: the cursor always points at one of the seven entries of the table;
\* the sleep step never returns true, so the cursor is never moved past the
\* last entry.
C19_CursorInTable ==
    /\ step \in 0..6
    /\ succeeded[SLEEP] = 0
    /\ invoked[SLEEP] > 0 => step = SLEEP

C19_Witness ==
    /\ invoked[SLEEP] > 0
    /\ pc = "run"

\* C20: the seconds the sleep step computes lie in 1..60, and the 32 bit
\* product 1000000 * seconds handed to deepSleep is the exact product.
C20_SleepArgumentInRange ==
    harness.test = "sleep" =>
        \A k \in 1..Len(harness.suspends) :
            LET call == harness.suspends[k]
            IN  /\ call.seconds >= 1
                /\ call.seconds <= 60
                /\ (call.micros.high * 65536) + call.micros.low
                       = 1000000 * call.seconds

C20_Witness ==
    /\ harness.test = "sleep"
    /\ harness.calls = 1
    /\ harness.rec.time = 2147483647
    /\ Len(harness.suspends) = 1

====
